---- MODULE Spec2Model ----
(***************************************************************************)
(* The Opus range decoder of symphonia-codec-opus/src/range/mod.rs:        *)
(* the renormalization lookup table (LookupTable::new, the lazy static     *)
(* LOOKUP) and the Decoder (new, decode_symbol_with_icdf,                  *)
(* decode_symbol_log_p, normalize, update, get_bits, get_bit).             *)
(*                                                                         *)
(* A u32 is kept as a pair <<hi, lo>> of 16-bit halves, so that the full   *)
(* 32-bit width of range and value is kept: every operation below is the   *)
(* u32 operation of the source, with its overflow reported separately.     *)
(* The variable build says whether the crate was compiled with overflow    *)
(* checks ("debug": an overflowing +, -, * panics) or without ("release":  *)
(* it wraps modulo 2^32, or modulo 2^8 for a u8).                          *)
(***************************************************************************)
EXTENDS Integers, Sequences, FiniteSets, TLC

VARIABLES
    build,          \* "debug" | "release": overflow checks on | off
    data,           \* TestReader.data: the bytes of the stream
    position,       \* TestReader.position
    range,          \* Decoder.range   (u32)
    value,          \* Decoder.value   (u32)
    bits_read,      \* Decoder.bits_read
    current_byte,   \* Decoder.current_byte
    LOOKUP,         \* the lazy static LOOKUP
    calls,          \* the calls made so far, each with its outcome
    test,           \* the test function that made them, "" when none did
    index,          \* the table index whose entry is computed (table specification)
    entry,          \* the outcome of computing that entry
    table,          \* the outcome of LookupTable::new in this build
    twin            \* a second decoder with its own reader, and its calls

vars == <<build, data, position, range, value, bits_read, current_byte,
          LOOKUP, calls, test, index, entry, table, twin>>

Builds == {"debug", "release"}

(***************************************************************************)
(* u32 arithmetic on <<hi, lo>>.                                           *)
(***************************************************************************)
W16 == 2^16
W15 == 2^15
W8 == 2^8

U32Of(n) == <<n \div W16, n % W16>>          \* for 0 <= n < 2^31
Zero == <<0, 0>>
Lt(a, b) == a[1] < b[1] \/ (a[1] = b[1] /\ a[2] < b[2])
Le(a, b) == ~Lt(b, a)

\* a + b modulo 2^32, and whether the sum overflows
AddW(a, b) ==
    LET l == a[2] + b[2]
        h == a[1] + b[1] + (l \div W16)
    IN  <<h % W16, l % W16>>
AddOv(a, b) == a[1] + b[1] + ((a[2] + b[2]) \div W16) >= W16

\* a - b modulo 2^32; it underflows exactly when a < b
SubW(a, b) ==
    LET l == a[2] - b[2]
        borrow == IF l < 0 THEN 1 ELSE 0
        h == a[1] - b[1] - borrow
    IN  <<(h + W16) % W16, (l + W16) % W16>>

\* a * m modulo 2^32 for 0 <= m <= 2^16, byte by byte, and whether it overflows
MulBytes(a, m) ==
    LET p0 == (a[2] % W8) * m
        p1 == (a[2] \div W8) * m + (p0 \div W8)
        p2 == (a[1] % W8) * m + (p1 \div W8)
        p3 == (a[1] \div W8) * m + (p2 \div W8)
    IN  [v |-> <<(p3 % W8) * W8 + (p2 % W8), (p1 % W8) * W8 + (p0 % W8)>>,
         ov |-> p3 \div W8 > 0]
MulW(a, m) == MulBytes(a, m).v
MulOv(a, m) == MulBytes(a, m).ov

\* a << s and a >> s for 0 <= s <= 31 (bits shifted out are lost)
Shl(a, s) ==
    IF s >= 16
    THEN <<(a[2] % (2^(32 - s))) * (2^(s - 16)), 0>>
    ELSE <<(a[1] % (2^(16 - s))) * (2^s) + (a[2] \div (2^(16 - s))),
           (a[2] % (2^(16 - s))) * (2^s)>>
Shr(a, s) ==
    IF s >= 16
    THEN <<0, a[1] \div (2^(s - 16))>>
    ELSE <<a[1] \div (2^s), (a[1] % (2^s)) * (2^(16 - s)) + (a[2] \div (2^s))>>

\* a / b for b > 0.  For b >= 2^31 the quotient is 0 or 1.  Otherwise, with
\* a = 2 * half + bit and half = q * b + r, a / b is 2 * q, plus one when
\* 2 * r + bit >= b.
ToNat(a) == a[1] * W16 + a[2]                \* for a < 2^31
Div(a, b) ==
    IF b[1] >= W15 THEN (IF Le(b, a) THEN <<0, 1>> ELSE Zero)
    ELSE LET half == ToNat(Shr(a, 1))
             bit == a[2] % 2
             n == ToNat(b)
             q == half \div n
             r == half % n
         IN  AddW(Shl(U32Of(q), 1), <<0, IF r + bit >= n - r THEN 1 ELSE 0>>)

(***************************************************************************)
(* The lookup table: LookupTable::new and the lazy static LOOKUP.          *)
(***************************************************************************)
LOOKUP_TABLE_SIZE == 256
U8_MAX == 255

\* The inner loop of LookupTable::new, lines 22-26, on l = [st, v, shift, add]:
\* shift is a u8 (the element type of normalize_shift), add a u32, v a usize.
\* One evaluation of the loop test and, when it holds, of the loop body.
InnerStep(b, l) ==
    IF l.st # "run" THEN l
    ELSE IF ~(l.v < 128) THEN [l EXCEPT !.st = "ok"]
    ELSE IF l.shift = U8_MAX /\ b = "debug"
         THEN [l EXCEPT !.st = "panic"]               \* shift += 1 overflows
    ELSE [st |-> "run", v |-> l.v * 2, shift |-> (l.shift + 1) % W8,
          add |-> AddW(Shl(l.add, 1), <<0, 1>>)]

\* n steps of the loop from l
RECURSIVE InnerRun(_, _, _)
InnerRun(b, l, n) ==
    IF n = 0 THEN l
    ELSE IF n = 1 THEN InnerStep(b, l)
    ELSE LET half == InnerRun(b, l, n \div 2)
         IN  IF half.st = "run" THEN InnerRun(b, half, n - (n \div 2)) ELSE half

\* The loop run to its end.  A loop that is still running after W8 steps and
\* is in the same state again W8 steps later never ends ("hang").
InnerLoop(b, v) ==
    LET once == InnerRun(b, [st |-> "run", v |-> v, shift |-> 0, add |-> Zero], W8)
        twice == InnerRun(b, once, W8)
    IN  IF once.st = "run" /\ twice = once THEN [once EXCEPT !.st = "hang"]
        ELSE twice

\* One pass of the outer loop, lines 19-28: the entry for index i.
TableEntry(b, i) == InnerLoop(b, i)

\* LookupTable::new, lines 14-35.  Each pass of the outer loop depends on i
\* alone; the first pass that does not end well ends the construction.
Indices == 0..(LOOKUP_TABLE_SIZE - 1)
LookupTable_new(b) ==
    LET bad == {i \in Indices : TableEntry(b, i).st # "ok"}
    IN  IF bad = {}
        THEN [st |-> "ok",
              normalize_shift |-> [i \in Indices |-> TableEntry(b, i).shift],
              normalize_add |-> [i \in Indices |-> TableEntry(b, i).add]]
        ELSE [st |-> TableEntry(b, CHOOSE i \in bad : \A j \in bad : i <= j).st,
              normalize_shift |-> <<>>, normalize_add |-> <<>>]

NoTable == [st |-> "none", normalize_shift |-> <<>>, normalize_add |-> <<>>]
NoEntry == [st |-> "none", v |-> 0, shift |-> 0, add |-> Zero]

(***************************************************************************)
(* The decoder.  A world w is the state one Decoder works on: its fields,  *)
(* the reader it borrows (data, position), the build and the lazy static.  *)
(* Every function returns [st, w, ...]: st is "Ok" or "Err" (the Result    *)
(* returned), "panic" (the call unwinds) or "hang" (the call never         *)
(* returns); w is the world it leaves.                                     *)
(***************************************************************************)
MIN_RANGE == <<128, 0>>             \* 1 << 23
MAX_VALUE_HI == W15                 \* & ((1 << 31) - 1) keeps hi % 2^15

Overflows(w) == w.build = "debug"   \* an overflowing +, -, * or shift panics

\* TestReader::read_byte
read_byte(w) ==
    IF w.position < Len(w.data)
    THEN [st |-> "Ok", byte |-> w.data[w.position + 1],
          w |-> [w EXCEPT !.position = w.position + 1]]
    ELSE [st |-> "Err", byte |-> 0, w |-> w]

\* When get_bit asks the reader for a byte
\* A cursor that fetches a byte for every bit
AtByteBoundary_every(w) == w.bits_read >= 0
AtByteBoundary(w) == w.bits_read % 8 = 0

\* Only({e(x) : x \in {v}}) is e(v), with v evaluated once and named x.
Only(S) == CHOOSE x \in S : TRUE

\* A cursor that counts the bit it could not get
get_bit_counting(w) ==
    Only({IF r.st = "Err"
          THEN [st |-> "Err", bit |-> 0,
                w |-> [w EXCEPT !.bits_read = w.bits_read + 1]]
          ELSE [st |-> "Ok",
                bit |-> (r.byte \div (2^(7 - (w.bits_read % 8)))) % 2,
                w |-> [r.w EXCEPT !.current_byte = r.byte,
                                  !.bits_read = w.bits_read + 1]] :
          r \in {IF AtByteBoundary(w) THEN read_byte(w)
                 ELSE [st |-> "Ok", byte |-> w.current_byte, w |-> w]}})

\* Decoder::get_bit
get_bit(w) ==
    Only({IF r.st = "Err" THEN [st |-> "Err", bit |-> 0, w |-> w]
          ELSE [st |-> "Ok",
                bit |-> (r.byte \div (2^(7 - (w.bits_read % 8)))) % 2,
                w |-> [r.w EXCEPT !.current_byte = r.byte,
                                  !.bits_read = w.bits_read + 1]] :
          r \in {IF AtByteBoundary(w) THEN read_byte(w)
                 ELSE [st |-> "Ok", byte |-> w.current_byte, w |-> w]}})

\* Decoder::get_bits: the try_fold over 0..n
RECURSIVE get_bits_fold(_, _, _)
get_bits_fold(w, n, acc) ==
    IF n = 0 THEN [st |-> "Ok", bits |-> acc, w |-> w]
    ELSE Only({IF r.st = "Err" THEN [st |-> "Err", bits |-> 0, w |-> r.w]
               ELSE get_bits_fold(r.w, n - 1, acc * 2 + r.bit) :
               r \in {get_bit(w)}})
get_bits(w, n) == get_bits_fold(w, n, 0)

\* A Lazy that reports what it cannot give as a stream error
ForceLookup_reported(w) ==
    IF w.LOOKUP.st = "none"
    THEN [st |-> w.table.st, w |-> [w EXCEPT !.LOOKUP = w.table]]
    ELSE [st |-> "Err", w |-> w]

\* The first dereference of the Lazy runs LookupTable::new, which takes no
\* input: w.table is its outcome in this build.  A panic in it poisons the
\* Lazy, and every later dereference panics.
ForceLookup(w) ==
    IF w.LOOKUP.st = "none"
    THEN [st |-> w.table.st, w |-> [w EXCEPT !.LOOKUP = w.table]]
    ELSE [st |-> w.LOOKUP.st, w |-> w]

\* The guard of the loop of normalize
BelowMinRange_strict(r) == Lt(r, MIN_RANGE)
BelowMinRange(r) == Le(r, MIN_RANGE)

\* The value folded in by one pass of normalize, line 137, and whether the
\* subtraction or the addition overflows
Fold(v, shift, add, byte) ==
    Only({[v |-> <<sum[1] % MAX_VALUE_HI, sum[2]>>,
           ov |-> Lt(add, byte) \/ AddOv(Shl(v, shift), SubW(add, byte))] :
          sum \in {AddW(Shl(v, shift), SubW(add, byte))}})

\* One pass of the loop of normalize, lines 133-137, with the table t
normalize_pass(w, t) ==
    Only({IF shift >= 32 /\ Overflows(w) THEN [st |-> "panic", w |-> w]
          ELSE Only({IF g.st = "Err" THEN [st |-> "Err", w |-> g.w]
                     ELSE Only({IF f.ov /\ Overflows(w) THEN [st |-> "panic", w |-> g.w]
                                ELSE [st |-> "Ok", w |-> [g.w EXCEPT !.value = f.v]] :
                                f \in {Fold(w.value, shift % 32,
                                            t.normalize_add[shift], <<0, g.bits>>)}}) :
                     g \in {get_bits([w EXCEPT !.range = Shl(w.range, shift % 32)], 8)}}) :
          shift \in {t.normalize_shift[Shr(w.range, 23)[2]]}})

\* Decoder::normalize
RECURSIVE normalize(_)
normalize(w) ==
    IF ~BelowMinRange(w.range) THEN [st |-> "Ok", w |-> w]
    ELSE Only({IF f.st # "ok" THEN [st |-> f.st, w |-> f.w]
               ELSE Only({IF p.st # "Ok" THEN p ELSE normalize(p.w) :
                          p \in {normalize_pass(f.w, f.w.LOOKUP)}}) :
               f \in {ForceLookup(w)}})

\* The registers Decoder::update computes, lines 144-149, for fh <= ft <= 2^16
\* and fl <= 2^16, and whether one of its operations overflows
Updated(w, scale, fl, fh, ft) ==
    Only({[value |-> SubW(w.value, p),
           range |-> IF fl > 0
                     THEN IF fh >= fl THEN MulW(scale, fh - fl)
                          ELSE SubW(Zero, MulW(scale, fl - fh))
                     ELSE SubW(w.range, p),
           ov |-> \/ MulOv(scale, ft - fh)
                  \/ Lt(w.value, p)
                  \/ fl > 0 /\ (fh < fl \/ MulOv(scale, fh - fl))
                  \/ fl = 0 /\ Lt(w.range, p)] :
          p \in {MulW(scale, ft - fh)}})

\* Decoder::update
update(w, scale, fl, fh, ft) ==
    Only({IF u.ov /\ Overflows(w) THEN [st |-> "panic", w |-> w]
          ELSE normalize([w EXCEPT !.value = u.value, !.range = u.range]) :
          u \in {Updated(w, scale, fl, fh, ft)}})

\* The symbol chosen by decode_symbol_with_icdf, lines 87-91: cdf[j] of the
\* source is cdf[j + 1] here, and window i is <<cdf[i + 1], cdf[i + 2]>>.
Windows(cdf) == 0..(Len(cdf) - 2)
Fallback(cdf) ==
    [k |-> Len(cdf) - 1, fl |-> cdf[Len(cdf) - 1], fh |-> cdf[Len(cdf)]]
\* A search that leaves out the window (cdf[0], cdf[1])
Select_interior(cdf, threshold) ==
    Only({IF found = {} THEN Fallback(cdf)
          ELSE Only({[k |-> i, fl |-> cdf[i + 1], fh |-> cdf[i + 2]] :
                     i \in {x \in found : \A y \in found : x <= y}}) :
          found \in {{i \in Windows(cdf) \ {0} : Lt(threshold, U32Of(cdf[i + 2]))}}})
Select(cdf, threshold) ==
    Only({IF found = {} THEN Fallback(cdf)
          ELSE Only({[k |-> i, fl |-> cdf[i + 1], fh |-> cdf[i + 2]] :
                     i \in {x \in found : \A y \in found : x <= y}}) :
          found \in {{i \in Windows(cdf) : Lt(threshold, U32Of(cdf[i + 2]))}}})

NoSel == [k |-> 0, fl |-> 0, fh |-> 0, ft |-> 0, scale |-> Zero]

\* Decoder::decode_symbol_with_icdf
decode_symbol_with_icdf(w, cdf) ==
    IF cdf[1] = 0
    THEN [st |-> "panic", w |-> w, ret |-> 0, sel |-> NoSel]       \* range / 0
    ELSE Only({
        IF scale = Zero
        THEN [st |-> "panic", w |-> w, ret |-> 0, sel |-> NoSel]   \* value / 0
        ELSE Only({
            Only({[st |-> u.st, w |-> u.w, ret |-> c.k,
                   sel |-> [k |-> c.k, fl |-> c.fl, fh |-> c.fh, ft |-> cdf[1],
                            scale |-> scale]] :
                  u \in {update(w, scale, c.fl, c.fh, cdf[1])}}) :
            c \in {Select(cdf, Div(w.value, scale))}}) :
        scale \in {Div(w.range, U32Of(cdf[1]))}})

\* A comparison value > scale for the bit
Halved_strict(w, logp) ==
    Only({IF Lt(scale, w.value)
          THEN [bit |-> TRUE, value |-> SubW(w.value, scale),
                range |-> SubW(w.range, scale)]
          ELSE [bit |-> FALSE, value |-> w.value, range |-> scale] :
          scale \in {Shr(w.range, logp)}})

\* The registers decode_symbol_log_p computes, lines 105-113, for logp < 32
Halved(w, logp) ==
    Only({IF Le(scale, w.value)
          THEN [bit |-> TRUE, value |-> SubW(w.value, scale),
                range |-> SubW(w.range, scale)]
          ELSE [bit |-> FALSE, value |-> w.value, range |-> scale] :
          scale \in {Shr(w.range, logp)}})

\* Decoder::decode_symbol_log_p
decode_symbol_log_p(w, logp) ==
    Only({Only({[st |-> n.st, w |-> n.w, ret |-> h.bit] :
                n \in {normalize([w EXCEPT !.value = h.value, !.range = h.range])}}) :
          h \in {Halved(w, logp)}})

\* Decoder::new over the stream s
new(b, s, lookup, t) ==
    Only({IF g.st = "Err" THEN [st |-> "Err", w |-> g.w]
          ELSE normalize([g.w EXCEPT !.value = U32Of(127 - g.bits)]) :
          g \in {get_bits([build |-> b, data |-> s, position |-> 0,
                           range |-> U32Of(128), value |-> Zero, bits_read |-> 0,
                           current_byte |-> 0, LOOKUP |-> lookup, table |-> t], 7)}})

(***************************************************************************)
(* Inputs.                                                                 *)
(***************************************************************************)
MaxStreamLen == 2       \* streams of up to this many bytes, besides the named ones
MaxCalls == 2           \* calls made in one run
MaxRangeOff == 1        \* a drawn range is 2^e + off, off in 0..MaxRangeOff
ValueSteps == 4         \* a drawn value is j * (range / ValueSteps), or range - 1

ByteSamples == {0, 11, 255}
TestVector == <<11, 228, 193, 54, 236, 197, 128>>       \* test_decoder
OneByte == <<11>>                                       \* test_decoder_error_handling
AllOnes == <<255, 255, 255, 255, 255, 255, 255, 255>>   \* test_decoder_edge_cases
Streams ==
    {TestVector, OneByte, AllOnes}
        \cup UNION {[1..n -> ByteSamples] : n \in 0..MaxStreamLen}

SILK_MODEL_FRAME_TYPE_INACTIVE == <<256, 26, 256>>
SILK_MODEL_GAIN_HIGHBITS_0 == <<256, 32, 144, 212, 241, 253, 254, 255, 256>>
SILK_MODEL_GAIN_LOWBITS == <<256, 32, 64, 96, 128, 160, 192, 224, 256>>
edge_icdf == <<256, 255, 256>>
Tables == {SILK_MODEL_FRAME_TYPE_INACTIVE, SILK_MODEL_GAIN_HIGHBITS_0,
           SILK_MODEL_GAIN_LOWBITS, edge_icdf}
LogPs == {1, 8, 31}

\* An ICDF table as the decoder's callers write it: cdf[0] = ft, then the
\* cumulative counts, non-decreasing, the last one ft again; ft <= 2^16.
WellFormed(cdf) ==
    /\ Len(cdf) >= 2
    /\ cdf[1] > 0 /\ cdf[1] <= W16
    /\ cdf[Len(cdf)] = cdf[1]
    /\ \A j \in 2..(Len(cdf) - 1) : cdf[j] <= cdf[j + 1]
    /\ \A j \in 2..Len(cdf) : cdf[j] >= 0

\* Register states of a decoder between two calls: 2^23 < range < 2^32,
\* value < range and value < 2^31.
RangeSamples ==
    {r \in {<<2^(e - 16), off>> : e \in 23..31, off \in 0..MaxRangeOff} :
        Lt(MIN_RANGE, r)}
ValueSamples(r) ==
    {v \in {MulW(Div(r, U32Of(ValueSteps)), j) : j \in 0..(ValueSteps - 1)}
            \cup {SubW(r, <<0, 1>>)} :
        Lt(v, r) /\ v[1] < W15}
\* The streams a drawn decoder reads from: the 31 bits of the initialization
\* (7, then three times 8) are behind the cursor.
CallStreams == {TestVector}

(***************************************************************************)
(* State machine.                                                          *)
(***************************************************************************)
World == [build |-> build, data |-> data, position |-> position, range |-> range,
          value |-> value, bits_read |-> bits_read, current_byte |-> current_byte,
          LOOKUP |-> LOOKUP, table |-> table]

Leaves(w) ==
    /\ data' = w.data
    /\ position' = w.position
    /\ range' = w.range
    /\ value' = w.value
    /\ bits_read' = w.bits_read
    /\ current_byte' = w.current_byte
    /\ LOOKUP' = w.LOOKUP

\* The record of one call: what was called on which registers, and its outcome.
Call(w, op, st, arg, logp, k, bit, sel) ==
    [op |-> op, st |-> st, arg |-> arg, logp |-> logp, k |-> k, bit |-> bit,
     sel |-> sel, range0 |-> w.range, value0 |-> w.value]

\* No second decoder
NoTwin == [data |-> <<>>, position |-> 0, range |-> Zero, value |-> Zero,
           bits_read |-> 0, current_byte |-> 0, calls |-> <<>>]

Last(q) == q[Len(q)]
\* A call that panicked or never returned leaves nothing to call.
Returned == IF calls = <<>> THEN TRUE ELSE Last(calls).st \in {"Ok", "Err"}

\* One decode call, op on w, as a record of the call and the world it leaves
Decode(w, op, arg, logp) ==
    IF op = "icdf"
    THEN Only({[w |-> r.w, call |-> Call(w, "icdf", r.st, arg, 0, r.ret, FALSE, r.sel)] :
               r \in {decode_symbol_with_icdf(w, arg)}})
    ELSE Only({[w |-> r.w, call |-> Call(w, "log_p", r.st, <<>>, logp, 0, r.ret, NoSel)] :
               r \in {decode_symbol_log_p(w, logp)}})

\* Decoder::new over the stream s, as a record of the call and the world it leaves
Construct(b, s, lookup, t) ==
    Only({[w |-> r.w, call |-> Call(r.w, "new", r.st, s, 0, 0, FALSE, NoSel)] :
          r \in {new(b, s, lookup, t)}})

\* The test functions: a stream and the decode calls made on the decoder over
\* it, each call propagating its error with `?`.  Of test_decoder, the calls
\* of lines 339-343.
Step(op, arg, logp) == [op |-> op, arg |-> arg, logp |-> logp]
Tests ==
    {[name |-> "test_decoder", data |-> TestVector,
      script |-> <<Step("log_p", <<>>, 1), Step("log_p", <<>>, 1),
                   Step("icdf", SILK_MODEL_FRAME_TYPE_INACTIVE, 0),
                   Step("icdf", SILK_MODEL_GAIN_HIGHBITS_0, 0),
                   Step("icdf", SILK_MODEL_GAIN_LOWBITS, 0)>>],
     [name |-> "test_decoder_error_handling", data |-> OneByte,
      script |-> <<Step("icdf", SILK_MODEL_FRAME_TYPE_INACTIVE, 0)>>],
     [name |-> "test_decoder_edge_cases", data |-> AllOnes,
      script |-> <<Step("icdf", edge_icdf, 0), Step("log_p", <<>>, 31)>>]}

\* The calls of a script from its i-th on, until one does not return Ok
RECURSIVE RunScript(_, _, _, _)
RunScript(w, script, i, log) ==
    IF i > Len(script) THEN [w |-> w, log |-> log]
    ELSE Only({IF d.call.st = "Ok"
               THEN RunScript(d.w, script, i + 1, Append(log, d.call))
               ELSE [w |-> d.w, log |-> Append(log, d.call)] :
               d \in {Decode(w, script[i].op, script[i].arg, script[i].logp)}})

\* The program from its start: no table, no decoder.
Init ==
    /\ build \in Builds
    /\ table = LookupTable_new(build)
    /\ data = <<>> /\ position = 0
    /\ range = Zero /\ value = Zero /\ bits_read = 0 /\ current_byte = 0
    /\ LOOKUP = NoTable
    /\ calls = <<>> /\ test = ""
    /\ index = 0 /\ entry = NoEntry
    /\ twin = NoTwin

\* Decoder::new(&mut reader) over a fresh reader.  A panic unwinds (the test
\* harness goes on to the next test); a call that hangs ends the run.
CallNew ==
    \E s \in Streams :
        /\ Len(calls) < MaxCalls /\ test = ""
        /\ IF calls = <<>> THEN TRUE ELSE Last(calls).st # "hang"
        /\ \E c \in {Construct(build, s, LOOKUP, table)} :
               /\ Leaves(c.w)
               /\ calls' = Append(calls, c.call)
        /\ UNCHANGED <<build, test, index, entry, table, twin>>

\* One of the test functions, run first
RunTest ==
    \E t \in Tests :
        /\ calls = <<>> /\ test = ""
        /\ test' = t.name
        /\ \E c \in {Construct(build, t.data, LOOKUP, table)} :
           \E r \in {IF c.call.st = "Ok" THEN RunScript(c.w, t.script, 1, <<c.call>>)
                     ELSE [w |-> c.w, log |-> <<c.call>>]} :
               /\ Leaves(r.w)
               /\ calls' = r.log
        /\ UNCHANGED <<build, index, entry, table, twin>>

Next == CallNew \/ RunTest

Spec == Init /\ [][Next]_vars

\* A decoder between two calls, its registers drawn.
InitCall ==
    /\ build \in Builds
    /\ table = LookupTable_new(build)
    /\ data \in CallStreams /\ position = 4
    /\ bits_read = 31 /\ current_byte = data[4]
    /\ range \in RangeSamples
    /\ value \in ValueSamples(range)
    /\ LOOKUP = NoTable
    /\ calls = <<>> /\ test = ""
    /\ index = 0 /\ entry = NoEntry
    /\ twin = NoTwin

CallIcdf ==
    \E cdf \in Tables :
        /\ Len(calls) < MaxCalls /\ Returned
        /\ \E d \in {Decode(World, "icdf", cdf, 0)} :
               /\ Leaves(d.w)
               /\ calls' = Append(calls, d.call)
        /\ UNCHANGED <<build, test, index, entry, table, twin>>

CallLogP ==
    \E logp \in LogPs :
        /\ Len(calls) < MaxCalls /\ Returned
        /\ \E d \in {Decode(World, "log_p", <<>>, logp)} :
               /\ Leaves(d.w)
               /\ calls' = Append(calls, d.call)
        /\ UNCHANGED <<build, test, index, entry, table, twin>>

NextCall == CallIcdf \/ CallLogP

SpecCall == InitCall /\ [][NextCall]_vars

\* The table: one pass of the outer loop for a drawn index, and the whole
\* construction, which starts at index 0.
InitTable ==
    /\ build \in Builds
    /\ index \in Indices
    /\ entry = NoEntry /\ table = NoTable
    /\ data = <<>> /\ position = 0
    /\ range = Zero /\ value = Zero /\ bits_read = 0 /\ current_byte = 0
    /\ LOOKUP = NoTable
    /\ calls = <<>> /\ test = ""
    /\ twin = NoTwin

ComputeEntry ==
    /\ entry.st = "none"
    /\ entry' = TableEntry(build, index)
    /\ UNCHANGED <<build, data, position, range, value, bits_read, current_byte,
                   LOOKUP, calls, test, index, table, twin>>

BuildTable ==
    /\ index = 0 /\ table.st = "none"
    /\ table' = LookupTable_new(build)
    /\ UNCHANGED <<build, data, position, range, value, bits_read, current_byte,
                   LOOKUP, calls, test, index, entry, twin>>

NextTable == ComputeEntry \/ BuildTable

SpecTable == InitTable /\ [][NextTable]_vars

\* Two decoders over equal streams, as in test_decoder_consistency, between
\* two calls: equal registers, drawn; each has its own reader, and LOOKUP is
\* the one static they share.
InitPair ==
    /\ build \in Builds
    /\ table = LookupTable_new(build)
    /\ data \in CallStreams /\ position = 4
    /\ bits_read = 31 /\ current_byte = data[4]
    /\ range \in RangeSamples
    /\ value \in ValueSamples(range)
    /\ LOOKUP = NoTable
    /\ calls = <<>> /\ test = ""
    /\ index = 0 /\ entry = NoEntry
    /\ twin = [data |-> data, position |-> position, range |-> range,
               value |-> value, bits_read |-> bits_read,
               current_byte |-> current_byte, calls |-> <<>>]

TwinWorld == [build |-> build, data |-> twin.data, position |-> twin.position,
              range |-> twin.range, value |-> twin.value,
              bits_read |-> twin.bits_read, current_byte |-> twin.current_byte,
              LOOKUP |-> LOOKUP, table |-> table]

\* The second decoder makes the call the first one made at the same step, on
\* its own thread: a panic or a hang of the first does not stop it.
TwinFollows ==
    /\ Len(twin.calls) < Len(calls)
    /\ IF twin.calls = <<>> THEN TRUE ELSE Last(twin.calls).st \in {"Ok", "Err"}
    /\ \E c \in {calls[Len(twin.calls) + 1]} :
       \E d \in {Decode(TwinWorld, c.op, c.arg, c.logp)} :
           /\ twin' = [data |-> d.w.data, position |-> d.w.position,
                       range |-> d.w.range, value |-> d.w.value,
                       bits_read |-> d.w.bits_read,
                       current_byte |-> d.w.current_byte,
                       calls |-> Append(twin.calls, d.call)]
           /\ LOOKUP' = d.w.LOOKUP
    /\ UNCHANGED <<build, data, position, range, value, bits_read, current_byte,
                   calls, test, index, entry, table>>

NextPair == CallIcdf \/ CallLogP \/ TwinFollows

SpecPair == InitPair /\ [][NextPair]_vars

\* One pass of the loop of normalize, taken alone.  LOOKUP cannot be built,
\* so the pass is given the entries that the passes of the outer loop of
\* LookupTable::new do produce, those of the indices 1..255; the loop is
\* entered with range <= 2^23, and MIN_RANGE is the one such range whose top
\* byte, range >> 23, is not the index 0.
EntriesBuilt(b) == {i \in Indices : TableEntry(b, i).st = "ok"}
PassTable(b) ==
    [st |-> "ok",
     normalize_shift |-> [i \in EntriesBuilt(b) |-> TableEntry(b, i).shift],
     normalize_add |-> [i \in EntriesBuilt(b) |-> TableEntry(b, i).add]]
PassRanges == {MIN_RANGE}
\* Streams with 31 bits behind the cursor: the chunk of 8 bits read next is
\* the lowest bit of data[4] and the upper 7 bits of data[5], if there is one.
PassStreams ==
    {<<11, 228, 193, b4>> \o rest :
        b4 \in {54, 55}, rest \in {<<>>} \cup {<<b5>> : b5 \in {0, 62, 64, 128, 254, 255}}}

\* What one pass looks up and reads, lines 133-136
PassTrace(w, t) ==
    Only({Only({[shift |-> shift, add |-> t.normalize_add[shift],
                 read |-> g.st, byte |-> g.bits] :
                g \in {get_bits(w, 8)}}) :
          shift \in {t.normalize_shift[Shr(w.range, 23)[2]]}})

InitPass ==
    /\ build \in Builds
    /\ table = PassTable(build)
    /\ data \in PassStreams /\ position = 4
    /\ bits_read = 31 /\ current_byte = data[4]
    /\ range \in PassRanges
    /\ value \in ValueSamples(range)
    /\ LOOKUP = NoTable
    /\ calls = <<>> /\ test = ""
    /\ index = 0 /\ entry = NoEntry
    /\ twin = NoTwin

Pass ==
    /\ calls = <<>>
    /\ \E t \in {PassTrace(World, table)} :
       \E p \in {normalize_pass(World, table)} :
           /\ Leaves(p.w)
           /\ calls' = <<[op |-> "pass", st |-> p.st, shift |-> t.shift,
                          add |-> t.add, read |-> t.read, byte |-> t.byte,
                          range0 |-> range, value0 |-> value]>>
    /\ UNCHANGED <<build, test, index, entry, table, twin>>

NextPass == Pass

SpecPass == InitPass /\ [][NextPass]_vars

\* The bit cursor taken alone: a decoder as Decoder::new builds it (lines
\* 66-72) over a fresh reader, and get_bit called on it bit by bit, as the
\* folds of get_bits do.
InitBits ==
    /\ build \in Builds
    /\ table = LookupTable_new(build)
    /\ data \in Streams /\ position = 0
    /\ range = U32Of(128) /\ value = Zero /\ bits_read = 0 /\ current_byte = 0
    /\ LOOKUP = NoTable
    /\ calls = <<>> /\ test = ""
    /\ index = 0 /\ entry = NoEntry
    /\ twin = NoTwin

GetBit ==
    /\ IF calls = <<>> THEN TRUE ELSE Last(calls).st = "Ok"
    /\ \E r \in {get_bit(World)} :
           /\ Leaves(r.w)
           /\ calls' = Append(calls, [op |-> "get_bit", st |-> r.st, bit |-> r.bit])
    /\ UNCHANGED <<build, test, index, entry, table, twin>>

NextBits == GetBit

SpecBits == InitBits /\ [][NextBits]_vars

\* The bit cursor asked again after the stream has refused a byte, as a later
\* call on the same decoder asks it: each attempt is recorded with whether it
\* asked the reader and with the cursor it found.
MaxFailures == 3        \* attempts refused in one run
Failed(q) == {i \in DOMAIN q : q[i].st = "Err"}

ExtractBit ==
    /\ Cardinality(Failed(calls)) < MaxFailures
    /\ \E r \in {get_bit(World)} :
           /\ Leaves(r.w)
           /\ calls' = Append(calls, [op |-> "get_bit", st |-> r.st, bit |-> r.bit,
                                      asked |-> AtByteBoundary(World),
                                      bits_read0 |-> bits_read,
                                      position0 |-> position])
    /\ UNCHANGED <<build, test, index, entry, table, twin>>

NextRetry == ExtractBit

SpecRetry == InitBits /\ [][NextRetry]_vars

(***************************************************************************)
(* Properties.                                                             *)
(***************************************************************************)
IcdfCalls == {i \in DOMAIN calls : calls[i].op = "icdf" /\ WellFormed(calls[i].arg)}
NewCalls == {i \in DOMAIN calls : calls[i].op = "new"}
Results(q) == [i \in DOMAIN q |-> IF q[i].op = "log_p" THEN q[i].bit ELSE q[i].k]

\* C1: test_decoder, over the stream 0b e4 c1 36 ec c5 80, constructs the
\* decoder and then decodes false, false, 1, 0, 6, every call returning Ok.
C1_KnownVector ==
    test = "test_decoder" =>
        /\ Len(calls) = 6
        /\ \A i \in DOMAIN calls : calls[i].st = "Ok"
        /\ Results(calls) = <<0, FALSE, FALSE, 1, 0, 6>>

\* C2: after every decode call that returns Ok, 2^23 < range < 2^32.
C2_RangeInvariant ==
    (calls # <<>> /\ Last(calls).st = "Ok") =>
        /\ Lt(MIN_RANGE, range)
        /\ range[1] \in 0..(W16 - 1) /\ range[2] \in 0..(W16 - 1)

\* A decode call has returned Ok and has left range just above 2^23.
C2_Witness ==
    /\ calls # <<>> /\ Last(calls).st = "Ok"
    /\ Last(calls).range0 # range
    /\ range[1] = MIN_RANGE[1]

C5_ExhaustionAtExactCall ==
    \A i \in NewCalls :
        /\ calls[i].st \in {"Ok", "Err"}
        /\ Len(calls[i].arg) * 8 < 7 + 8 => calls[i].st = "Err"
        /\ (i = Len(calls) /\ calls[i].st = "Err") => position = Len(data)

\* C6: over a stream of one byte, Decoder::new returns Ok and the
\* decode_symbol_with_icdf call made next returns an error.
C6_SingleByteStream ==
    test = "test_decoder_error_handling" =>
        /\ Len(calls) = 2
        /\ calls[1].op = "new" /\ calls[1].st = "Ok"
        /\ calls[2].op = "icdf" /\ calls[2].st = "Err"

\* C8: LookupTable::new terminates, without overflow, with an entry for every
\* index 0..255.
C8_ConstructionCannotFail ==
    table.st # "none" =>
        /\ table.st = "ok"
        /\ DOMAIN table.normalize_shift = Indices
        /\ DOMAIN table.normalize_add = Indices

\* C9: normalize_shift[i] is the smallest s >= 0 with (i << s) >= 128, for
\* every index i in 0..255.
C9_TableContent ==
    entry.st # "none" =>
        /\ entry.st = "ok"
        /\ index * 2^entry.shift >= 128
        /\ \A s \in 0..(entry.shift - 1) : index * 2^s < 128

C12_Initialization ==
    \A i \in NewCalls :
        /\ calls[i].arg \in {TestVector, AllOnes} => calls[i].st = "Ok"
        /\ calls[i].arg = <<>> => calls[i].st = "Err"
        /\ (i = Len(calls) /\ calls[i].st = "Ok") =>
               /\ Lt(MIN_RANGE, range)
               /\ bits_read >= 7 /\ (bits_read - 7) % 8 = 0

\* C13: test_decoder_edge_cases, over eight bytes 0xFF, constructs the decoder,
\* decodes 1 from [256, 255, 256] and then true with logp = 31, every call
\* returning Ok.
C13_AllBitsSet ==
    test = "test_decoder_edge_cases" =>
        /\ Len(calls) = 3
        /\ \A i \in DOMAIN calls : calls[i].st = "Ok"
        /\ Results(calls) = <<0, 1, TRUE>>

\* The threshold of a recorded decode_symbol_with_icdf call, from its
\* registers at entry, and the indices k with cdf[k+1] > threshold (cdf[j] of
\* the source is arg[j + 1]).
Threshold(c) == Div(c.value0, Div(c.range0, U32Of(c.arg[1])))
Above(c) == {k \in 0..(Len(c.arg) - 2) : Lt(Threshold(c), U32Of(c.arg[k + 2]))}

ScaleLogP(c) == Shr(c.range0, c.logp)

PassCalls == {i \in DOMAIN calls : calls[i].op = "pass" /\ calls[i].read = "Ok"}

C19_Progress ==
    \A i \in NewCalls :
        (i = Len(calls) /\ bits_read >= 7) =>
            /\ calls[i].st # "hang"
            /\ Lt(U32Of(128), range)
            /\ calls[i].arg \in {TestVector, AllOnes} => Lt(MIN_RANGE, range)

\* Bit n of a stream, counted from 0, most significant bit of each byte first
BitOf(d, n) == (d[(n \div 8) + 1] \div 2^(7 - (n % 8))) % 2

\* C20: bits are returned most-significant-first from successive bytes, and
\* the number of bytes taken from the stream is ceil(bits_read / 8): a byte
\* is fetched exactly when all 8 bits of the current one have been returned.
\* A bit is refused only when the stream has no byte left.
C20_BitCursor ==
    /\ position = (bits_read + 7) \div 8
    /\ position <= Len(data)
    /\ bits_read > 0 => current_byte = data[position]
    /\ \A i \in DOMAIN calls :
           calls[i].op = "get_bit" =>
               IF calls[i].st = "Ok"
               THEN calls[i].bit = BitOf(data, i - 1) /\ i <= bits_read
               ELSE i = Len(calls) /\ bits_read = 8 * Len(data)
                    /\ i = bits_read + 1

\* Bits have been returned from two bytes, the second fetched at the ninth bit,
\* and both a 0 and a 1 have been returned.
C20_Witness ==
    /\ bits_read = 9 /\ position = 2
    /\ Len(calls) = 9 /\ Last(calls).st = "Ok"
    /\ \E i, j \in DOMAIN calls : calls[i].bit = 0 /\ calls[j].bit = 1

\* C21: a read of the stream fails only with the bit cursor on a byte
\* boundary, and the failure leaves bits_read and the reader where they were;
\* so every later attempt asks the stream again and fails again, and no bit
\* of the stale current_byte is returned after a failed read.
C21_ReadFailure ==
    \A i \in Failed(calls) :
        /\ calls[i].asked /\ calls[i].bits_read0 % 8 = 0
        /\ calls[i].position0 = Len(data)
        /\ \A j \in DOMAIN calls :
               j > i => /\ calls[j].st = "Err" /\ calls[j].asked
                        /\ calls[j].bits_read0 = calls[i].bits_read0
                        /\ calls[j].position0 = calls[i].position0
        /\ bits_read = calls[i].bits_read0 /\ position = calls[i].position0

\* After bits were returned from a stream, the stream has refused a byte and
\* the cursor has been asked for a bit again.
C21_Witness ==
    /\ Cardinality(Failed(calls)) >= 2
    /\ bits_read >= 8 /\ current_byte # 0
    /\ calls[1].st = "Ok"

====
